---- MODULE Spec2Model ----
(***************************************************************************)
(* Connect Four rules engine (src/src/connect_four.rs): the Board, its     *)
(* move submission game_move, the gravity scan row_available and the win   *)
(* detection has_won, as a state machine.                                  *)
(*                                                                         *)
(* Spec      : a game played from Board::new by game_move calls.           *)
(* SpecCells : a board built cell by cell with update_cell, on which       *)
(*             has_won is then called (the shape of the unit tests).       *)
(***************************************************************************)
EXTENDS Integers, Sequences, FiniteSets, TLC

\* ------------------------------------------------------------------ types

\* board: [[Cell; 7]; 6]
Rows == 6
Cols == 7
RowIdx == 0..(Rows - 1)
ColIdx == 0..(Cols - 1)

\* enum Player { Red, Yellow }
Red == "Red"
Yellow == "Yellow"
Player == {Red, Yellow}

\* enum Cell { Player(Player), Empty }: an owned cell is written as its owner
Empty == "Empty"
Cell == Player \cup {Empty}

\* Option<usize> of row_available
None == {}
Some(i) == {i}
Unwrap(o) == CHOOSE i \in o : TRUE

\* Result<GameMoveResult, String> of game_move; NoResult: no call made yet
NoPlayer == "-"
NoResult == [kind |-> "None", player |-> NoPlayer, msg |-> <<>>]
Valid == [kind |-> "Valid", player |-> NoPlayer, msg |-> <<>>]
Won(p) == [kind |-> "Won", player |-> p, msg |-> <<>>]
Stalemate == [kind |-> "Stalemate", player |-> NoPlayer, msg |-> <<>>]
\* the error naming the column as the driver numbers it, from 1
ColumnFullFromOne(col) == [kind |-> "Err", player |-> NoPlayer,
                           msg |-> <<"Column ", col + 1, " is full.">>]

\* Err(format!("Column {} is full.", col))
ColumnFull(col) == [kind |-> "Err", player |-> NoPlayer,
                    msg |-> <<"Column ", col, " is full.">>]

\* a call that panicked instead of returning
Panicked == [kind |-> "Panic", player |-> NoPlayer, msg |-> <<>>]

\* the last has_won call: its arguments and what it returned, or that it
\* panicked
NoCall == [called |-> FALSE, row |-> 0, col |-> 0, ret |-> FALSE, panic |-> FALSE]
Call(row, col, ret) ==
    [called |-> TRUE, row |-> row, col |-> col, ret |-> ret, panic |-> FALSE]
CallPanicked(row, col) ==
    [called |-> TRUE, row |-> row, col |-> col, ret |-> FALSE, panic |-> TRUE]

\* ------------------------------------------------------------------ Board

\* Board::new with the first turn fixed instead of taken from its argument
new_red_first(starting_player) ==
    [current_player |-> Red,
     board |-> [r \in RowIdx |-> [c \in ColIdx |-> Empty]]]

\* Board::new
new(starting_player) ==
    [current_player |-> starting_player,
     board |-> [r \in RowIdx |-> [c \in ColIdx |-> Empty]]]

\* row_available scanning the column from the top: for i in (0..6).rev()
row_available_from_top(b, col) ==
    IF \E i \in 0..5 : b[i][col] = Empty
    THEN Some(CHOOSE i \in 0..5 :
                  b[i][col] = Empty /\ \A j \in (i + 1)..5 : b[j][col] # Empty)
    ELSE None

\* row_available indexing the row without the bounds check, modulo its length
RECURSIVE row_scan_wrapping(_, _, _)
row_scan_wrapping(b, col, i) ==
    IF i >= 6 THEN None
    ELSE IF b[i][col % Cols] = Empty THEN Some(i)
    ELSE row_scan_wrapping(b, col, i + 1)

\* what row_available yields when self.board[i][col] panics: the index col is
\* out of bounds of [Cell; 7]
IndexOutOfBounds == {0 - 1}

\* Board::row_available: for i in 0..6, the first i with board[i][col] Empty
RECURSIVE row_scan(_, _, _)
row_scan(b, col, i) ==
    IF i >= 6 THEN None
    ELSE IF col \notin DOMAIN b[i] THEN IndexOutOfBounds
    ELSE IF b[i][col] = Empty THEN Some(i)
    ELSE row_scan(b, col, i + 1)

row_available(b, col) == row_scan(b, col, 0)

\* update_cell overwriting the whole row: self.board[row] = [cell; 7]
update_row(b, row, col, cell) == [b EXCEPT ![row] = [c \in ColIdx |-> cell]]

\* Board::update_cell
update_cell(b, row, col, cell) == [b EXCEPT ![row][col] = cell]

\* the scanning loop that keeps its count over a token of the other player
RECURSIVE scan_no_reset(_, _, _, _, _)
scan_no_reset(b, cp, cells, i, connection_count) ==
    IF i > Len(cells) THEN FALSE
    ELSE LET cell == b[cells[i][1]][cells[i][2]] IN
         IF cell # Empty
         THEN IF cell = cp
              THEN IF connection_count + 1 = 4 THEN TRUE
                   ELSE scan_no_reset(b, cp, cells, i + 1, connection_count + 1)
              ELSE scan_no_reset(b, cp, cells, i + 1, connection_count)
         ELSE scan_no_reset(b, cp, cells, i + 1, 0)

\* the scanning loop that returns true at a count of 3
RECURSIVE scan_three(_, _, _, _, _)
scan_three(b, cp, cells, i, connection_count) ==
    IF i > Len(cells) THEN FALSE
    ELSE LET cell == b[cells[i][1]][cells[i][2]] IN
         IF cell # Empty
         THEN IF cell = cp
              THEN IF connection_count + 1 = 3 THEN TRUE
                   ELSE scan_three(b, cp, cells, i + 1, connection_count + 1)
              ELSE scan_three(b, cp, cells, i + 1, 0)
         ELSE scan_three(b, cp, cells, i + 1, 0)

\* the scanning loop has_won repeats four times: connection_count grows on a
\* cell owned by current_player, is reset by any other cell, and 4 returns true
RECURSIVE scan(_, _, _, _, _)
scan(b, cp, cells, i, connection_count) ==
    IF i > Len(cells) THEN FALSE
    ELSE LET cell == b[cells[i][1]][cells[i][2]] IN
         IF cell # Empty
         THEN IF cell = cp
              THEN IF connection_count + 1 = 4 THEN TRUE
                   ELSE scan(b, cp, cells, i + 1, connection_count + 1)
              ELSE scan(b, cp, cells, i + 1, 0)
         ELSE scan(b, cp, cells, i + 1, 0)

\* the row loop stopping one column short: for i in 0..6
row_cells_six(row) == [i \in 1..6 |-> <<row, i - 1>>]

\* the cells each of the four loops of has_won reads, in order
row_cells(row) == [i \in 1..7 |-> <<row, i - 1>>]
col_cells(col) == [i \in 1..6 |-> <<i - 1, col>>]

\* north east diagonal: start and range
ne_start(row, col) ==
    IF row <= col THEN <<0, col - row>> ELSE <<row - col, 0>>
ne_range(coord) ==
    IF 6 - coord[1] < 7 - coord[2] THEN 6 - coord[1] ELSE 7 - coord[2]
ne_cells(row, col) ==
    LET coord == ne_start(row, col) IN
    [i \in 1..ne_range(coord) |-> <<coord[1] + (i - 1), coord[2] + (i - 1)>>]

\* south east start without its branch: always coord.0 -= 6 - col
se_start_clamped(row, col) == <<row - (6 - col), 6>>

\* south east diagonal: start and range
se_start(row, col) ==
    IF (col + row) - 6 > 0 THEN <<row - (6 - col), 6>> ELSE <<0, col + row>>
se_range(coord) ==
    IF 5 - coord[1] < coord[2] THEN 5 - coord[1] ELSE coord[2] + 1
se_cells(row, col) ==
    LET coord == se_start(row, col) IN
    [i \in 1..se_range(coord) |-> <<coord[1] + (i - 1), coord[2] - (i - 1)>>]

\* some usize subtraction of has_won(row, col) goes below zero: the start
\* (col - row, row - col, 6 - col, row - (6 - col)), the ranges (6 - coord.0,
\* 7 - coord.1, 5 - coord.0) or the column index coord.1 - i
has_won_underflow(row, col) ==
    LET ne == ne_start(row, col)
        se == se_start(row, col)
    IN \/ ne[1] < 0 \/ ne[2] < 0
       \/ 6 - ne[1] < 0 \/ 7 - ne[2] < 0
       \/ se[1] < 0 \/ 5 - se[1] < 0
       \/ ((col + row) - 6 > 0 /\ 6 - col < 0)
       \/ \E i \in 0..(se_range(se) - 1) : se[2] - i < 0

\* the cells the four loops of has_won(row, col) index self.board with
has_won_reads(row, col) ==
    {row_cells(row)[i] : i \in DOMAIN row_cells(row)}
    \cup {col_cells(col)[i] : i \in DOMAIN col_cells(col)}
    \cup {ne_cells(row, col)[i] : i \in DOMAIN ne_cells(row, col)}
    \cup {se_cells(row, col)[i] : i \in DOMAIN se_cells(row, col)}

\* has_won(row, col) panics: on a subtraction that overflows, or on an index
\* out of bounds in one of its four loops
has_won_panics(row, col) ==
    \/ has_won_underflow(row, col)
    \/ row \notin RowIdx
    \/ col \notin ColIdx
    \/ \E i \in 0..(ne_range(ne_start(row, col)) - 1) :
          \/ ne_start(row, col)[1] + i \notin RowIdx
          \/ ne_start(row, col)[2] + i \notin ColIdx
    \/ \E i \in 0..(se_range(se_start(row, col)) - 1) :
          \/ se_start(row, col)[1] + i \notin RowIdx
          \/ se_start(row, col)[2] - i \notin ColIdx

\* Board::has_won
has_won(b, cp, row, col) ==
    \/ scan(b, cp, row_cells(row), 1, 0)
    \/ scan(b, cp, col_cells(col), 1, 0)
    \/ scan(b, cp, ne_cells(row, col), 1, 0)
    \/ scan(b, cp, se_cells(row, col), 1, 0)

\* the stalemate loop stopping one column short: for i in 0..6
stalemate_six(b) == \A i \in 0..5 : row_available(b, i) = None

\* the stalemate loop of game_move: no column has an available row
stalemate(b) == \A i \in 0..6 : row_available(b, i) = None

\* the turn flip with the same player in both branches
other_yellow(p) == IF p = Yellow THEN Yellow ELSE Yellow

\* game_move without the turn flip
other_same(p) == p

\* the turn flip of game_move
other(p) == IF p = Yellow THEN Red ELSE Yellow

\* game_move looking for the stalemate after the placement instead of before
game_move_stalemate_after(self, col) ==
    IF row_available(self.board, col) # None
    THEN LET row == Unwrap(row_available(self.board, col))
             b == update_cell(self.board, row, col, self.current_player)
         IN IF has_won(b, self.current_player, row, col)
            THEN [self |-> [self EXCEPT !.board = b],
                  ret |-> Won(self.current_player),
                  hw |-> Call(row, col, TRUE)]
            ELSE [self |-> [current_player |-> other(self.current_player),
                            board |-> b],
                  ret |-> IF stalemate(b) THEN Stalemate ELSE Valid,
                  hw |-> Call(row, col, FALSE)]
    ELSE IF stalemate(self.board)
    THEN [self |-> self, ret |-> Stalemate, hw |-> NoCall]
    ELSE [self |-> self, ret |-> ColumnFull(col), hw |-> NoCall]

\* game_move from its has_won call on: b is the board with the token placed
\* at (row, col)
game_move_placed(self, b, row, col) ==
    IF has_won_panics(row, col)
    THEN [self |-> [self EXCEPT !.board = b],
          ret |-> Panicked,
          hw |-> CallPanicked(row, col)]
    ELSE IF has_won(b, self.current_player, row, col)
    THEN [self |-> [self EXCEPT !.board = b],
          ret |-> Won(self.current_player),
          hw |-> Call(row, col, TRUE)]
    ELSE [self |-> [current_player |-> other(self.current_player),
                    board |-> b],
          ret |-> Valid,
          hw |-> Call(row, col, FALSE)]

\* Board::game_move on self = [current_player, board]: the new self, the
\* returned value and the has_won call it made
game_move(self, col) ==
    IF stalemate(self.board)
    THEN [self |-> self, ret |-> Stalemate, hw |-> NoCall]
    ELSE IF row_available(self.board, col) = IndexOutOfBounds
    THEN [self |-> self, ret |-> Panicked, hw |-> NoCall]
    ELSE IF row_available(self.board, col) # None
    THEN CHOOSE out \in
             {game_move_placed(self, placed[2], placed[1], col) :
                 placed \in {<<row, update_cell(self.board, row, col, self.current_player)>> :
                                row \in row_available(self.board, col)}} : TRUE
    ELSE [self |-> self, ret |-> ColumnFull(col), hw |-> NoCall]

\* ---------------------------------------------------------------- run_game

\* a line of input as the sequence of its characters
Digits == <<"0", "1", "2", "3", "4", "5", "6", "7", "8", "9">>
IsDigit(ch) == \E d \in DOMAIN Digits : Digits[d] = ch
DigitVal(ch) == (CHOOSE d \in DOMAIN Digits : Digits[d] = ch) - 1
IsSpace(ch) == ch \in {" ", "\t", "\n", "\r"}

\* io::stdin().read_line(&mut input) returning Err
ReadErr == <<"Err">>

\* str::trim: the line without its leading and trailing white space
RECURSIVE trim_start(_)
trim_start(s) ==
    IF s # <<>> /\ IsSpace(Head(s)) THEN trim_start(Tail(s)) ELSE s
RECURSIVE trim_end(_)
trim_end(s) ==
    IF s # <<>> /\ IsSpace(s[Len(s)])
    THEN trim_end(SubSeq(s, 1, Len(s) - 1))
    ELSE s
trim(s) == trim_end(trim_start(s))

\* Result<usize, ParseIntError> of str::parse::<usize>
ParseErr == [ok |-> FALSE, n |-> 0]
Ok(n) == [ok |-> TRUE, n |-> n]

\* the value of a sequence of decimal digits
RECURSIVE digits_value(_, _)
digits_value(s, acc) ==
    IF s = <<>> THEN acc
    ELSE digits_value(Tail(s), acc * 10 + DigitVal(Head(s)))

\* str::parse::<usize>: an optional '+', then one or more decimal digits (the
\* lines read here are too short to exceed usize::MAX)
parse(s) ==
    LET digits == IF s # <<>> /\ Head(s) = "+" THEN Tail(s) ELSE s IN
    IF digits = <<>> THEN ParseErr
    ELSE IF \E i \in DOMAIN digits : ~IsDigit(digits[i]) THEN ParseErr
    ELSE Ok(digits_value(digits, 0))

\* the column check accepting 0: if n > 7
invalid_above_seven(n) == n > 7

\* the column check of run_game: if n > 7 || n < 1
invalid(n) == n > 7 \/ n < 1

\* run_game returning on every result but Valid
returns_unless_valid(ret) == ret.kind \in {"Won", "Stalemate", "Err"}

\* the results on which run_game returns
returns(ret) == ret.kind \in {"Won", "Stalemate"}

\* an iteration of run_game that does not call game_move
NoMove(self) ==
    [self |-> self, called |-> FALSE, arg |-> 0, ret |-> NoResult,
     hw |-> NoCall, pc |-> "loop"]

\* match self.game_move(n - 1): Valid and Err go on, Won and Stalemate
\* return; out is what game_move(col) yielded
run_game_move(out, col) ==
    [self |-> out.self, called |-> TRUE, arg |-> col,
     ret |-> out.ret, hw |-> out.hw,
     pc |-> IF out.ret.kind = "Panic" THEN "panicked"
            ELSE IF returns(out.ret) THEN "returned"
            ELSE "loop"]

\* match input.trim().parse::<usize>()
run_game_parsed(self, parsed) ==
    IF ~parsed.ok THEN NoMove(self)
    ELSE IF invalid(parsed.n) THEN NoMove(self)
    ELSE CHOOSE step \in {run_game_move(out, parsed.n - 1) :
                             out \in {game_move(self, parsed.n - 1)}} : TRUE

\* one iteration of the loop of run_game that read `line`, on self =
\* [current_player, board]: the new self, whether game_move was called, its
\* argument, what it returned, the has_won call it made, and where the
\* iteration left the loop
run_game(self, line) ==
    IF line = ReadErr THEN NoMove(self)
    ELSE CHOOSE step \in {run_game_parsed(self, parsed) :
                             parsed \in {parse(trimmed) :
                                            trimmed \in {trim(line)}}} : TRUE

\* ------------------------------------------------------------------ state

VARIABLES
    board,            \* Board.board
    current_player,   \* Board.current_player
    starting_player,  \* the argument Board::new was called with
    result,           \* what the last game_move call returned
    arg,              \* the col argument of the last game_move call
    hw,               \* the last has_won call
    ply,              \* game_move calls made so far
    devs,             \* moves played off the reference games so far
    axis,             \* the cells a test writes with update_cell
    pc,               \* run_game: in its loop, returned or panicked
    input,            \* run_game: the line the last iteration read
    called            \* run_game: the last iteration called game_move

vars == <<board, current_player, starting_player, result, arg, hw, ply, devs,
          axis, pc, input, called>>

\* ------------------------------------------------------------------ players

\* Two complete 42-move games, as the columns named in turn. In DrawnGame no
\* four tokens ever line up; in MissedGame the 41st move, row 5 of column 1,
\* lines up (2,4),(3,3),(4,2),(5,1).
DrawnGame ==
    <<2, 1, 5, 0, 3, 4, 2, 6, 0, 0, 0, 0, 2, 0, 6, 5, 5, 5, 5, 3, 6,
      3, 3, 2, 6, 4, 5, 1, 4, 1, 4, 4, 2, 2, 4, 6, 1, 6, 1, 3, 3, 1>>
MissedGame ==
    <<2, 1, 5, 0, 3, 4, 2, 6, 0, 0, 0, 0, 2, 0, 6, 5, 5, 5, 5, 3, 6,
      3, 3, 2, 6, 4, 5, 1, 4, 1, 4, 4, 2, 2, 1, 3, 4, 3, 1, 6, 1, 6>>
Games == <<DrawnGame, MissedGame>>

\* the players leave the reference games at most MaxDev times, and go on
\* calling game_move for MaxExtra calls after its last move
MaxDev == 1
MaxExtra == 2
MaxCalls == Len(DrawnGame) + MaxExtra

\* the board holds at most MaxTokens tokens when built with update_cell
MaxTokens == 5

\* ------------------------------------------------------------------ Spec

Init ==
    /\ starting_player \in Player
    /\ board = new(starting_player).board
    /\ current_player = new(starting_player).current_player
    /\ result = NoResult
    /\ arg = 0
    /\ hw = NoCall
    /\ ply = 0
    /\ devs = 0
    /\ pc = "loop"
    /\ input = <<>>
    /\ called = FALSE

\* a game writes no cell with update_cell but through game_move
InitGame ==
    /\ Init
    /\ axis = {}

\* the columns the reference games name for the next call
Scripted == {Games[g][ply + 1] : g \in 1..Len(Games)}

\* which columns the players may name at this point
Named(col) ==
    \/ /\ ply < Len(DrawnGame)
       /\ col \in Scripted
       /\ devs' = devs
    \/ /\ ply >= Len(DrawnGame)
       /\ devs' = devs
    \/ /\ ply < Len(DrawnGame)
       /\ col \notin Scripted
       /\ devs < MaxDev
       /\ devs' = devs + 1

\* one game_move(col) call; the caller stops at the first Won (run_game
\* returns), and a panic ends the process
GameMove(col) ==
    /\ result.kind \notin {"Won", "Panic"}
    /\ ply < MaxCalls
    /\ Named(col)
    /\ \E out \in {game_move([current_player |-> current_player, board |-> board], col)} :
          /\ board' = out.self.board
          /\ current_player' = out.self.current_player
          /\ result' = out.ret
          /\ hw' = out.hw
    /\ arg' = col
    /\ ply' = ply + 1
    /\ UNCHANGED <<starting_player, axis, pc, input, called>>

Next == \E col \in ColIdx : GameMove(col)

Spec == InitGame /\ [][Next]_vars

\* ------------------------------------------------------------- SpecDirect

\* a caller other than run_game names columns up to MaxCol
MaxCol == 8

\* one game_move(col) call with col past the last column, at any point of a
\* game
OutOfRange(col) ==
    /\ result.kind \notin {"Won", "Panic"}
    /\ ply < MaxCalls
    /\ \E out \in {game_move([current_player |-> current_player, board |-> board], col)} :
          /\ board' = out.self.board
          /\ current_player' = out.self.current_player
          /\ result' = out.ret
          /\ hw' = out.hw
    /\ arg' = col
    /\ ply' = ply + 1
    /\ UNCHANGED <<starting_player, devs, axis, pc, input, called>>

NextDirect ==
    \/ \E col \in ColIdx : GameMove(col)
    \/ \E col \in Cols..MaxCol : OutOfRange(col)

SpecDirect == InitGame /\ [][NextDirect]_vars

\* -------------------------------------------------------------- SpecCells

\* the lines of the grid: its rows, its columns, its rising and its falling
\* diagonals, each as the set of its cells
Grid == RowIdx \X ColIdx
GridLines ==
    {{rc \in Grid : rc[1] = r} : r \in RowIdx}
    \cup {{rc \in Grid : rc[2] = c} : c \in ColIdx}
    \cup {{rc \in Grid : rc[1] - rc[2] = d} : d \in (1 - Cols)..(Rows - 1)}
    \cup {{rc \in Grid : rc[1] + rc[2] = d} : d \in 0..(Rows + Cols - 2)}

Occupied(b) == {rc \in Grid : b[rc[1]][rc[2]] # Empty}
Full(b) == \A rc \in Grid : b[rc[1]][rc[2]] # Empty
ColFull(b, c) == \A r \in RowIdx : b[r][c] # Empty

\* a test lays its tokens along one line of the grid
InitCells ==
    /\ Init
    /\ axis \in GridLines

\* a test writes one cell with update_cell, and writes no more once it has
\* started to call has_won
UpdateCell(row, col, cell) ==
    /\ ~hw.called
    /\ board[row][col] # cell
    /\ board' = update_cell(board, row, col, cell)
    /\ Cardinality(Occupied(board')) <= MaxTokens
    /\ UNCHANGED <<current_player, starting_player, result, arg, hw, ply, devs,
                   axis, pc, input, called>>

\* a test calls has_won(row, col) on a token of the board
HasWon(row, col) ==
    /\ board[row][col] # Empty
    /\ hw' = IF has_won_panics(row, col)
             THEN CallPanicked(row, col)
             ELSE Call(row, col, has_won(board, current_player, row, col))
    /\ hw' # hw
    /\ UNCHANGED <<board, current_player, starting_player, result, arg, ply, devs,
                   axis, pc, input, called>>

NextCells ==
    \/ \E rc \in axis, cell \in Cell : UpdateCell(rc[1], rc[2], cell)
    \/ \E rc \in axis : HasWon(rc[1], rc[2])

SpecCells == InitCells /\ [][NextCells]_vars

\* ------------------------------------------------------------- SpecDriver

\* the line a player types for column col, numbered from 1
Numeral(col) == <<Digits[col + 2], "\n">>

\* other lines stdin can yield: end of input, an empty line, numbers out of
\* range, text, a read error, and numbers written with white space, a sign or
\* a leading zero
BadLines ==
    {<<>>, <<"\n">>, <<"0", "\n">>, <<"8", "\n">>, <<"1", "0", "\n">>,
     <<"x", "\n">>, <<"-", "1", "\n">>, <<"3", "x", "\n">>, ReadErr}
OddLines ==
    {<<" ", "3", "\r", "\n">>, <<"+", "4", "\n">>, <<"0", "5", "\n">>}
Lines == {Numeral(c) : c \in ColIdx} \cup BadLines \cup OddLines

\* the columns the reference games name for the next token, if they have room
Playable ==
    IF Full(board) THEN {}
    ELSE {c \in {Games[g][Cardinality(Occupied(board)) + 1] : g \in 1..Len(Games)} :
             ~ColFull(board, c)}

\* the first column with room
FirstFree == CHOOSE c \in ColIdx : ~ColFull(board, c) /\ \A d \in 0..(c - 1) : ColFull(board, d)

\* the lines that follow the reference games at this point: their next
\* columns, the first column with room once they have none, nothing on a full
\* board
Script ==
    IF Full(board) THEN {}
    ELSE IF Playable # {} THEN {Numeral(c) : c \in Playable}
    ELSE {Numeral(FirstFree)}

\* which lines the players may type, given the lines that follow the games:
\* one of these, anything once the board is full, anything else at most
\* MaxDev times, and after a line that led to no game_move call any number of
\* further such lines
Typed(line, script) ==
    \/ /\ line \in script
       /\ devs' = devs
    \/ /\ script = {}
       /\ devs' = devs
    \/ /\ ~called /\ devs > 0
       /\ line \in BadLines
       /\ devs' = devs
    \/ /\ script # {}
       /\ line \notin script
       /\ devs < MaxDev
       /\ devs' = devs + 1

\* one iteration of the loop of run_game
RunGame(line, script) ==
    /\ pc = "loop"
    /\ Typed(line, script)
    /\ input' = line
    /\ \E out \in {run_game([current_player |-> current_player, board |-> board], line)} :
          /\ board' = out.self.board
          /\ current_player' = out.self.current_player
          /\ called' = out.called
          /\ pc' = out.pc
          /\ IF out.called
             THEN /\ result' = out.ret
                  /\ arg' = out.arg
                  /\ hw' = out.hw
                  /\ ply' = ply + 1
             ELSE UNCHANGED <<result, arg, hw, ply>>
    /\ UNCHANGED <<starting_player, axis>>

NextDriver == \E script \in {Script} : \E line \in Lines : RunGame(line, script)

SpecDriver == InitGame /\ [][NextDriver]_vars

\* the player types a line that stands for a column with room
NamesFreeColumn ==
    \E script \in {Script} : \E line \in Lines \ {ReadErr} :
        \E parsed \in {parse(trimmed) : trimmed \in {trim(line)}} :
            /\ parsed.ok
            /\ parsed.n \in 1..Cols
            /\ ~ColFull(board, parsed.n - 1)
            /\ RunGame(line, script)

\* run_game under the players' fairness: stdin goes on yielding lines, and the
\* player eventually names a column with room whenever there is one
SpecDriverFair ==
    /\ InitGame
    /\ [][NextDriver]_vars
    /\ WF_vars(NextDriver)
    /\ WF_vars(NamesFreeColumn)

\* ------------------------------------------------------------ properties

\* the four directions a run can take, as (row step, column step)
Horizontal == <<0, 1>>
Vertical == <<1, 0>>
Rising == <<1, 1>>
Falling == <<1, -1>>
Directions == {Horizontal, Vertical, Rising, Falling}

\* the 4 consecutive cells that start at (r, c) and go in direction d
Window(r, c, d) == {<<r + k * d[1], c + k * d[2]>> : k \in 0..3}

\* (r, c) is one of 4 consecutive cells in direction d that p owns
Run4Through(b, p, r, c, d) ==
    \E k \in 0..3 :
        /\ Window(r - k * d[1], c - k * d[2], d) \subseteq Grid
        /\ \A rc \in Window(r - k * d[1], c - k * d[2], d) : b[rc[1]][rc[2]] = p

\* (r, c) is on a run of 4 of p in some direction
InRun(b, p, r, c) == \E d \in Directions : Run4Through(b, p, r, c, d)

\* the line through (r, c) in direction d holds a run of 4 of p somewhere
RunOnLine(b, p, r, c, d) ==
    \E k \in (0 - Cols)..Cols : Run4Through(b, p, r + k * d[1], c + k * d[2], d)

\* the board holds 4 consecutive tokens of one owner in some direction
HasLine(b) ==
    \E rc \in Grid :
        /\ b[rc[1]][rc[2]] # Empty
        /\ InRun(b, b[rc[1]][rc[2]], rc[1], rc[2])

\* row `row` holds n consecutive tokens of p
HasRowRun(b, p, row, n) ==
    \E c \in 0..(Cols - n) : \A k \in 0..(n - 1) : b[row][c + k] = p

\* the step is a game_move call
IsGameMove == ply' = ply + 1

\* C1: when the token game_move has just placed completes a run of 4 of the
\* player who placed it, through its cell and in any of the four directions,
\* that call returned Won and not Valid.
C1_RunReturnsWon ==
    (hw.called /\ InRun(board, board[hw.row][hw.col], hw.row, hw.col))
        => result.kind = "Won"

\* C2: gravity: below an occupied cell every cell of its column is occupied.
C2_Gravity ==
    \A r \in RowIdx, c \in ColIdx :
        board[r][c] # Empty => \A r2 \in 0..(r - 1) : board[r2][c] # Empty

C2_Witness ==
    /\ \E c \in ColIdx : board[2][c] # Empty
    /\ \E c \in ColIdx : board[0][c] = Empty

\* C3: a game_move(col) call that returns Valid or Won changes exactly one
\* cell: row k of column col, where rows 0..k-1 of it were filled and row k
\* was Empty, now holds the player whose turn it was; no other cell changes.
C3_OneCellChanges ==
    [][(IsGameMove /\ result'.kind \in {"Valid", "Won"}) =>
        \E k \in RowIdx :
            /\ \A r \in 0..(k - 1) : board[r][arg'] # Empty
            /\ board[k][arg'] = Empty
            /\ board'[k][arg'] = current_player
            /\ \A rc \in Grid \ {<<k, arg'>>} :
                   board'[rc[1]][rc[2]] = board[rc[1]][rc[2]]]_vars

C3_Witness ==
    /\ result.kind \in {"Valid", "Won"}
    /\ hw.called /\ hw.row >= 2 /\ hw.col = arg
    /\ board[hw.row][hw.col] # Empty

\* C4: after a call that returns Valid the turn is the other player's; after
\* a call that returns Won(p) the turn is unchanged and p is that player.
C4_TurnAlternation ==
    [][IsGameMove =>
        /\ result'.kind = "Valid" =>
               (current_player' # current_player /\ current_player' \in Player)
        /\ result'.kind = "Won" =>
               (current_player' = current_player /\ result'.player = current_player)]_vars

C4_Witness ==
    /\ result.kind = "Won"
    /\ result.player = current_player
    /\ current_player # starting_player

\* C5: game_move returns Stalemate exactly when no cell is Empty at call
\* time, whatever column is named, and then changes neither the board nor the
\* turn.
C5_StalematePrecedence ==
    [][IsGameMove =>
        /\ (result'.kind = "Stalemate") <=> Full(board)
        /\ result'.kind = "Stalemate" =>
               (board' = board /\ current_player' = current_player)]_vars

C5_Witness ==
    /\ result.kind = "Stalemate"
    /\ Full(board)
    /\ arg = 6

\* C6: naming a full column while another column has an Empty cell returns
\* the error "Column <col> is full." and changes neither the board nor the
\* turn.
C6_RejectedMove ==
    [][(IsGameMove /\ ColFull(board, arg') /\ ~Full(board)) =>
        /\ result'.kind = "Err"
        /\ result'.msg = <<"Column ", arg', " is full.">>
        /\ board' = board
        /\ current_player' = current_player]_vars

C6_Witness ==
    /\ result.kind = "Err"
    /\ ColFull(board, arg)
    /\ ~Full(board)
    /\ arg > 0

\* C7: Board::new(p) yields 6 rows of 7 Empty cells and current_player = p.
C7_NewBoard ==
    ply = 0 =>
        /\ DOMAIN board = 0..5
        /\ \A r \in 0..5 : DOMAIN board[r] = 0..6
        /\ \A r \in 0..5, c \in 0..6 : board[r][c] = Empty
        /\ current_player = starting_player

C7_Witness ==
    /\ ply = 0
    /\ result = NoResult
    /\ starting_player = Yellow

\* C8: has_won(row, col) returns true on a cell of a horizontal or vertical
\* run of 4 tokens of current_player, whatever else the row or column holds;
\* it returns false when the longest run in the row is exactly 3 and neither
\* the column nor the diagonals through the cell hold a run of 4.
C8_RowColumnRun ==
    hw.called =>
        /\ (\/ Run4Through(board, current_player, hw.row, hw.col, Horizontal)
            \/ Run4Through(board, current_player, hw.row, hw.col, Vertical))
               => hw.ret
        /\ (/\ HasRowRun(board, current_player, hw.row, 3)
            /\ ~HasRowRun(board, current_player, hw.row, 4)
            /\ ~RunOnLine(board, current_player, hw.row, hw.col, Vertical)
            /\ ~RunOnLine(board, current_player, hw.row, hw.col, Rising)
            /\ ~RunOnLine(board, current_player, hw.row, hw.col, Falling))
               => ~hw.ret

C8_Witness ==
    /\ hw.called /\ hw.ret
    /\ Run4Through(board, current_player, hw.row, hw.col, Horizontal)
    /\ board[hw.row][0] = Empty
    /\ \E c \in ColIdx : board[hw.row][c] \notin {Empty, current_player}

\* C9: has_won(row, col) returns true on every cell of a rising or falling
\* diagonal run of 4 tokens of current_player, and false on a cell whose row,
\* column and two diagonals hold no run of 4.
C9_DiagonalRun ==
    hw.called =>
        /\ (\/ Run4Through(board, current_player, hw.row, hw.col, Rising)
            \/ Run4Through(board, current_player, hw.row, hw.col, Falling))
               => hw.ret
        /\ (\A d \in Directions :
                ~RunOnLine(board, current_player, hw.row, hw.col, d)) => ~hw.ret

\* C10: when game_move returns Stalemate, the board holds no 4 consecutive
\* tokens of one owner in any direction.
C10_StalemateNoLine ==
    result.kind = "Stalemate" => ~HasLine(board)

\* C11 as claimed: after a call that returned Valid some column still has an
\* Empty cell.
C11_ValidLeavesRoom ==
    result.kind = "Valid" => ~Full(board)

\* C11: a call that returns Valid found an Empty cell before it placed its
\* token; the call that fills the last Empty cell returns Valid or Won, never
\* Stalemate; and the call after a Valid that filled the board returns
\* Stalemate.
C11_LastCellValid ==
    [][IsGameMove =>
        /\ result'.kind = "Valid" => ~Full(board)
        /\ (~Full(board) /\ Full(board')) => result'.kind \in {"Valid", "Won"}
        /\ (result.kind = "Valid" /\ Full(board)) => result'.kind = "Stalemate"]_vars

C11_Witness ==
    /\ result.kind = "Valid"
    /\ Full(board)
    /\ ~HasLine(board)

\* the smaller of two numbers
Min2(a, b) == IF a < b THEN a ELSE b

\* the whole diagonal through (row, col), from its low-row end: rising (/)
\* towards higher columns, falling (\) towards lower columns
RisingDiagonal(row, col) ==
    LET m == Min2(row, col)
        r0 == row - m
        c0 == col - m
    IN [i \in 1..Min2(6 - r0, 7 - c0) |-> <<r0 + (i - 1), c0 + (i - 1)>>]
FallingDiagonal(row, col) ==
    LET m == Min2(row, 6 - col)
        r0 == row - m
        c0 == col + m
    IN [i \in 1..Min2(6 - r0, c0 + 1) |-> <<r0 + (i - 1), c0 - (i - 1)>>]

\* C14: each diagonal scan of has_won starts at the low-row end of the
\* diagonal through (row, col) and reads every cell of it, to its other end.
C14_DiagonalScans ==
    hw.called =>
        /\ ne_cells(hw.row, hw.col) = RisingDiagonal(hw.row, hw.col)
        /\ se_cells(hw.row, hw.col) = FallingDiagonal(hw.row, hw.col)

\* the player who is not p
Opponent(p) == CHOOSE q \in Player : q # p

Owned(b, p) == Cardinality({rc \in Grid : b[rc[1]][rc[2]] = p})

\* C18: while no call has returned Won, the starting player owns as many
\* cells as the other player when it is the starting player's turn, and one
\* more when it is the other player's turn.
C18_TokenBalance ==
    result.kind # "Won" =>
        Owned(board, starting_player) - Owned(board, Opponent(starting_player))
            = IF current_player = starting_player THEN 0 ELSE 1

C18_Witness ==
    /\ result.kind = "Err"
    /\ current_player # starting_player
    /\ Owned(board, starting_player) = Owned(board, Opponent(starting_player)) + 1

\* C19: a call that returns Won(p) has just placed a token of p, the player
\* whose turn it was, on an Empty cell of the column named, and that cell is
\* one of 4 consecutive cells of p in some direction.
C19_WonSound ==
    [][(IsGameMove /\ result'.kind = "Won") =>
        /\ result'.player = current_player
        /\ hw'.called /\ hw'.col = arg'
        /\ board[hw'.row][hw'.col] = Empty
        /\ board'[hw'.row][hw'.col] = current_player
        /\ InRun(board', current_player, hw'.row, hw'.col)]_vars

C19_Witness ==
    /\ result.kind = "Won"
    /\ hw.called
    /\ Run4Through(board, result.player, hw.row, hw.col, Falling)

\* C16: a game_move call with a column index past the last column changes
\* neither the board nor current_player; on a full board it returns
\* Stalemate, otherwise it panics in row_available, before has_won is called;
\* it returns neither Valid, Won nor the 'column full' error.
C16_OutOfRangeColumn ==
    [][(IsGameMove /\ arg' \notin ColIdx) =>
        /\ board' = board
        /\ current_player' = current_player
        /\ result' = IF Full(board) THEN Stalemate ELSE Panicked
        /\ hw' = NoCall]_vars

C16_Witness ==
    /\ result = Panicked
    /\ arg \notin ColIdx
    /\ Occupied(board) # {}
    /\ \E c \in ColIdx : ColFull(board, c)

\* C16, the full board: the out-of-range call returns Stalemate
C16_WitnessFull ==
    /\ result = Stalemate
    /\ arg \notin ColIdx

\* C17: has_won(row, col) makes no subtraction that goes below zero, reads
\* only cells of the grid, and so returns without a panic.
C17_NoUnderflow ==
    hw.called =>
        /\ ~has_won_underflow(hw.row, hw.col)
        /\ has_won_reads(hw.row, hw.col) \subseteq Grid
        /\ ~hw.panic

C17_Witness ==
    /\ hw.called /\ ~hw.panic
    /\ hw.row = 1 /\ hw.col = 2
    /\ Cardinality(Occupied(board)) = MaxTokens

\* the number in 1..=7 a line of Lines stands for, 0 if it stands for none
Meant(line) ==
    IF \E c \in ColIdx : line = Numeral(c)
    THEN (CHOOSE c \in ColIdx : line = Numeral(c)) + 1
    ELSE IF line = <<" ", "3", "\r", "\n">> THEN 3
    ELSE IF line = <<"+", "4", "\n">> THEN 4
    ELSE IF line = <<"0", "5", "\n">> THEN 5
    ELSE 0

\* C12: run_game returns only in an iteration whose game_move call returned
\* Won or Stalemate; an iteration that ends otherwise (Valid, 'column full',
\* a number out of range, text, a read error) stays in the loop; and once it
\* has returned nothing changes any more.
C12_ReturnsOnlyAtEnd ==
    [][/\ pc = "loop"
       /\ pc' = "returned" => (called' /\ result'.kind \in {"Won", "Stalemate"})
       /\ ~(called' /\ result'.kind \in {"Won", "Stalemate"}) => pc' = "loop"]_vars

C12_Witness ==
    /\ pc = "returned"
    /\ result.kind = "Stalemate"
    /\ devs = MaxDev

\* C12, looping on: an iteration after a 'column full' error
C12_WitnessLoop ==
    /\ pc = "loop"
    /\ result.kind = "Err" /\ called
    /\ Meant(input) = arg + 1

\* C13: run_game calls game_move only with a column in 0..6, n - 1 for the
\* line that stands for n in 1..=7; for any other line (text, nothing, 0, 8,
\* 10, -1, a read error) it does not call it and leaves the board and
\* current_player as they were.
C13_InputValidation ==
    [][IF Meant(input') \in 1..7
       THEN called' /\ arg' = Meant(input') - 1 /\ arg' \in ColIdx /\ ply' = ply + 1
       ELSE /\ ~called'
            /\ board' = board
            /\ current_player' = current_player
            /\ ply' = ply]_vars

C13_Witness ==
    /\ input = <<"0", "\n">>
    /\ ~called
    /\ pc = "loop"
    /\ Occupied(board) # {}

\* the step is an iteration whose game_move call returned Valid or Won
PlacedToken == called' /\ ply' = ply + 1 /\ result'.kind \in {"Valid", "Won"}

\* C20, progress: a game_move call that returns Valid or Won adds exactly one
\* occupied cell, every other iteration adds none, and the board holds at
\* most 42.
C20_Progress ==
    [][/\ PlacedToken =>
            Cardinality(Occupied(board')) = Cardinality(Occupied(board)) + 1
       /\ ~PlacedToken =>
            Cardinality(Occupied(board')) = Cardinality(Occupied(board))
       /\ Cardinality(Occupied(board')) <= Rows * Cols]_vars

\* C20 as claimed: progress, and every game reaches a call that returns Won
\* or Stalemate, on which run_game returns.
C20_Terminates ==
    /\ C20_Progress
    /\ <>(pc = "returned" /\ result.kind \in {"Won", "Stalemate"})

\* C20: progress; every game reaches a call that returns Won or a full board;
\* and on a full board the first game_move call returns Stalemate, on which
\* run_game returns.
C20_ReachesWonOrFullBoard ==
    /\ C20_Progress
    /\ [][(Full(board) /\ ply' = ply + 1) =>
             (result' = Stalemate /\ pc' = "returned")]_vars
    /\ <>((pc = "returned" /\ result.kind = "Won") \/ Full(board))

C20_Witness ==
    /\ Full(board)
    /\ result.kind = "Valid"
    /\ pc = "loop"
    /\ ~called
    /\ input # ReadErr /\ ~parse(trim(input)).ok

====
